---- MODULE Spec2Model ----
(***************************************************************************)
(* Model of training_script_amina.py: the window filter, the per-employee  *)
(* feature aggregation, the train/test split by identifier list and the    *)
(* warm-start training loop of main().                                     *)
(*                                                                         *)
(* A table (DataFrame) is a sequence of rows; every row is a record that   *)
(* carries its pandas index label in the field "index".  A typed date is   *)
(* the number of days since 2016-01-01; a date string is <<y, m, d>> and   *)
(* the empty cell is << >>.                                                *)
(***************************************************************************)
EXTENDS Integers, Sequences, FiniteSets, TLC

VARIABLES pc, full_df, id_list, emp_full_df, test_df, full_train_data,
          dates, loop_dates, clf, data_before, emp_df, X, fits, final, fn

vars == <<pc, full_df, id_list, emp_full_df, test_df, full_train_data,
          dates, loop_dates, clf, data_before, emp_df, X, fits, final, fn>>

(***************************************************************************)
(* Dates                                                                   *)
(***************************************************************************)
\* pd.NaT, the missing date.
NaT == -1

IsLeap(y) == (y % 4 = 0 /\ y % 100 # 0) \/ y % 400 = 0

DaysInMonth(y, m) ==
    IF m = 2 THEN (IF IsLeap(y) THEN 29 ELSE 28)
    ELSE IF m \in {4, 6, 9, 11} THEN 30 ELSE 31

RECURSIVE DaysBeforeMonth(_, _)
DaysBeforeMonth(y, m) ==
    IF m = 1 THEN 0 ELSE DaysBeforeMonth(y, m - 1) + DaysInMonth(y, m - 1)

RECURSIVE DaysBeforeYear(_)
DaysBeforeYear(y) ==
    IF y = 2016 THEN 0
    ELSE DaysBeforeYear(y - 1) + (IF IsLeap(y - 1) THEN 366 ELSE 365)

\* pd.to_datetime(s, format='%Y-%m-%d') of one cell.
to_datetime(s) ==
    IF s = << >> THEN NaT
    ELSE DaysBeforeYear(s[1]) + DaysBeforeMonth(s[1], s[2]) + (s[3] - 1)

\* Comparisons of dates: every comparison with NaT is False.
DateLe(a, b) == a # NaT /\ b # NaT /\ a <= b
DateLt(a, b) == a # NaT /\ b # NaT /\ a < b
DateGe(a, b) == a # NaT /\ b # NaT /\ a >= b

\* math.ceil(delta / np.timedelta64(1, 'M')): a month is 2629746 seconds.
SecondsPerDay == 86400
SecondsPerMonth == 2629746
MonthsCeil(days) == -((-(days * SecondsPerDay)) \div SecondsPerMonth)

(***************************************************************************)
(* Columns and tables                                                      *)
(***************************************************************************)
Column(df, c) == [k \in 1..Len(df) |-> df[k][c]]

RECURSIVE SeqSum(_)
SeqSum(s) == IF s = << >> THEN 0 ELSE s[1] + SeqSum(Tail(s))

RECURSIVE SeqProd(_)
SeqProd(s) == IF s = << >> THEN 1 ELSE s[1] * SeqProd(Tail(s))

Range(s) == {s[k] : k \in 1..Len(s)}

SetMax(S) == CHOOSE x \in S : \A y \in S : y <= x
SetMin(S) == CHOOSE x \in S : \A y \in S : x <= y

\* The distinct values of s in order of first appearance, after those in acc.
RECURSIVE UniqueAcc(_, _)
UniqueAcc(s, acc) ==
    IF s = << >> THEN acc
    ELSE UniqueAcc(Tail(s),
                   IF Head(s) \in Range(acc) THEN acc ELSE Append(acc, Head(s)))

\* Series.unique() with a slip: the first value is never looked at.
unique_skip_first(s) == IF s = << >> THEN << >> ELSE UniqueAcc(Tail(s), << >>)

\* Series.unique(): the distinct values in order of first appearance.
unique(s) == UniqueAcc(s, << >>)

\* Series.max() of a date column with a slip: the first row's value.
max_date_first(df) == IF df = << >> THEN NaT ELSE df[1].MMM_YY

\* df['MMM-YY'].max(): NaT is skipped; NaT for an all-missing or empty column.
max_date(df) ==
    LET S == Range(Column(df, "MMM_YY")) \ {NaT}
    IN  IF S = {} THEN NaT ELSE SetMax(S)

\* sorted(values): ascending order.
RECURSIVE sorted(_)
sorted(s) ==
    IF s = << >> THEN << >>
    ELSE LET m == SetMin(Range(s))
             k == CHOOSE i \in 1..Len(s) : s[i] = m
         IN  <<m>> \o sorted(SubSeq(s, 1, k - 1) \o SubSeq(s, k + 1, Len(s)))

(***************************************************************************)
(* dates_from_strings                                                      *)
(***************************************************************************)
\* The three date columns are parsed in place; every other column is kept.
dates_from_strings(df) ==
    [k \in 1..Len(df) |->
        [df[k] EXCEPT !.MMM_YY = to_datetime(@),
                      !.Dateofjoining = to_datetime(@),
                      !.LastWorkingDate = to_datetime(@)]]

(***************************************************************************)
(* split_train_test_emps                                                   *)
(***************************************************************************)
\* df['Emp_ID'].isin(id_list), row by row.
for_test(df, ids) == [k \in 1..Len(df) |-> df[k].Emp_ID \in ids]

\* df[mask]: the rows whose mask entry is True, in order, index labels kept.
BoolIndex(df, mask) ==
    LET F[k \in 0..Len(df)] ==
            IF k = 0 THEN << >>
            ELSE IF mask[k] THEN Append(F[k - 1], df[k]) ELSE F[k - 1]
    IN  F[Len(df)]

\* The split with a slip: the train part is not negated away from the list.
split_no_negation(df, ids) ==
    <<df, BoolIndex(df, for_test(df, ids))>>

\* return df[~for_test], df[for_test]
split_train_test_emps(df, ids) ==
    LET m == for_test(df, ids)
    IN  <<BoolIndex(df, [k \in 1..Len(df) |-> ~m[k]]), BoolIndex(df, m)>>

(***************************************************************************)
(* filter_data                                                             *)
(***************************************************************************)
\* The row mask with a slip: the joining date is compared with <=.
window_mask_le(df, end_date) ==
    [k \in 1..Len(df) |->
        DateLe(df[k].MMM_YY, end_date) /\ DateLe(df[k].Dateofjoining, end_date)]

\* (df['MMM-YY'] <= end_date) & (df['Dateofjoining'] < end_date)
window_mask(df, end_date) ==
    [k \in 1..Len(df) |->
        DateLe(df[k].MMM_YY, end_date) /\ DateLt(df[k].Dateofjoining, end_date)]

\* The censoring with a slip: only a date after the cutoff is removed.
censor_after(lwd, end_date) ==
    IF lwd # NaT /\ end_date # NaT /\ lwd > end_date THEN NaT ELSE lwd

\* np.where(LastWorkingDate >= end_date, pd.NaT, LastWorkingDate), one cell.
censor(lwd, end_date) ==
    IF DateGe(lwd, end_date) THEN NaT ELSE lwd

filter_data(df, end_date) ==
    LET kept == BoolIndex(df, window_mask(df, end_date))
    IN  [k \in 1..Len(kept) |->
            [kept[k] EXCEPT !.LastWorkingDate = censor(@, end_date)]]

(***************************************************************************)
(* generate_emp_samples                                                    *)
(***************************************************************************)
\* employee_df.tail(1)['LastWorkingDate'].iloc[-1]
last_day(employee_df) == employee_df[Len(employee_df)].LastWorkingDate

\* The reference date of Work Experience (the if / else on last_day).
last_working_day(employee_df, maxd) ==
    IF last_day(employee_df) = NaT THEN maxd ELSE last_day(employee_df)

\* employee_df[...]['Dateofjoining'].iloc[0]
join_date(employee_df) == employee_df[1].Dateofjoining

\* The label with a slip: only the last record is looked at.
Fired_last_only(employee_df) == last_day(employee_df) # NaT

\* not employee_df['LastWorkingDate'].isnull().values.all()
Fired(employee_df) ==
    ~(\A k \in 1..Len(employee_df) : employee_df[k].LastWorkingDate = NaT)

\* (max(Salary) - min(Salary)) / min(Salary), kept as <<numerator, denominator>>.
Salary_Change(employee_df) ==
    LET S == Range(Column(employee_df, "Salary"))
    IN  <<SetMax(S) - SetMin(S), SetMin(S)>>

\* (Total Business Value / Salary).mean(), kept as <<numerator, denominator>>
\* over the common denominator n * (product of the salaries).
Overvalue(employee_df) ==
    LET sal == Column(employee_df, "Salary")
        P == SeqProd(sal)
        terms == [k \in 1..Len(employee_df) |->
                     employee_df[k].Total_Business_Value * (P \div sal[k])]
    IN  <<SeqSum(terms), Len(employee_df) * P>>

\* One pass of the loop body: the feature dict of one employee.
employee_features(employee_df, maxd) ==
    LET id == employee_df[1].Emp_ID
    IN  [index |-> id,
         Emp_ID |-> id,
         Salary_Change |-> Salary_Change(employee_df),
         Total_Business_Value_All |->
             SeqSum(Column(employee_df, "Total_Business_Value")),
         Overvalue |-> Overvalue(employee_df),
         Work_Experience |->
             MonthsCeil(last_working_day(employee_df, maxd) - join_date(employee_df)),
         Fired |-> Fired(employee_df)]

\* employee_features[id] = {...}: a dict keeps one entry per key, in
\* insertion order; a second write to a key replaces the entry.
DictSet(d, row) ==
    IF \E k \in 1..Len(d) : d[k].index = row.index
    THEN [k \in 1..Len(d) |-> IF d[k].index = row.index THEN row ELSE d[k]]
    ELSE Append(d, row)

\* df[df['Emp_ID'] == i]
employee_df_of(df, i) == BoolIndex(df, [k \in 1..Len(df) |-> df[k].Emp_ID = i])

generate_emp_samples(df) ==
    LET ids == unique(Column(df, "Emp_ID"))
        maxd == max_date(df)
        F[k \in 0..Len(ids)] ==
            IF k = 0 THEN << >>
            ELSE DictSet(F[k - 1], employee_features(employee_df_of(df, ids[k]), maxd))
    IN  F[Len(ids)]

\* DataFrame.columns of an aggregated table (the empty dict gives no columns).
columns(df) == IF df = << >> THEN {} ELSE DOMAIN df[1] \ {"index"}

\* DataFrame.drop(c, axis=1)
drop(df, c) ==
    [k \in 1..Len(df) |-> [f \in DOMAIN df[k] \ {c} |-> df[k][f]]]

(***************************************************************************)
(* Inputs                                                                  *)
(***************************************************************************)
\* The longest observed history, in months, of a downloaded training table.
MaxMonths == 11
\* The longest table handed to a single function.
MaxRows == 2

\* dates[9:] and RandomForestClassifier(n_estimators=90), n_estimators += 20.
Skip == 9
InitialEstimators == 90
Increment == 20

\* read_csv gives the rows the labels 0, 1, 2, ...
WithIndex(cells) ==
    [k \in 1..Len(cells) |->
        [index |-> k - 1,
         Emp_ID |-> cells[k].Emp_ID,
         MMM_YY |-> cells[k].MMM_YY,
         Dateofjoining |-> cells[k].Dateofjoining,
         LastWorkingDate |-> cells[k].LastWorkingDate,
         Salary |-> cells[k].Salary,
         Total_Business_Value |-> cells[k].Total_Business_Value]]

\* The first day of the k-th month of 2017, as the sheet writes it.
MonthStr(k) == <<2017 + ((k - 1) \div 12), ((k - 1) % 12) + 1, 1>>

\* The rows of one employee of the sheet: one row for each month first..last.
\* mode "none": no departure; "last": the departure date is written on the
\* last row only; "all": it is written on every row.
EmployeeCells(e, first, last, doj, mode, lwd) ==
    [k \in 1..(last - first + 1) |->
        [Emp_ID |-> e,
         MMM_YY |-> MonthStr(first + k - 1),
         Dateofjoining |-> doj,
         LastWorkingDate |->
             IF mode = "all" \/ (mode = "last" /\ k = last - first + 1)
             THEN lwd ELSE << >>,
         Salary |-> 1 + ((e + k) % 2),
         Total_Business_Value |-> (first + k) - 10]]

\* The rows a later hire may have in the sheet: none, or a run of months
\* among the last three, joined either long before or on the first of them,
\* and left either not at all, on the first day of the month after the last
\* row, or in the middle of the last observed month.
LateHires(e) ==
    {<< >>} \cup
    {EmployeeCells(e, h.first, h.last, h.doj, h.mode, h.lwd) :
        h \in UNION {
            [first : {f}, last : f..MaxMonths,
             doj : {<<2017, 3, 15>>, MonthStr(f)},
             mode : {"none"}, lwd : {<< >>}]
            \cup
            UNION {
              [first : {f}, last : {l},
               doj : {<<2017, 3, 15>>, MonthStr(f)},
               mode : {"last"}, lwd : {MonthStr(l + 1)}]
              \cup
              [first : {f}, last : {l},
               doj : {<<2017, 3, 15>>, MonthStr(f)},
               mode : {"all"},
               lwd : {<<2017 + ((l - 1) \div 12), ((l - 1) % 12) + 1, 15>>}]
              : l \in f..MaxMonths}
            : f \in (MaxMonths - 2)..MaxMonths}}

\* The training sheets: employee 1 has been there since mid 2016 and has a
\* row for every month 1..n; employees 2 and 3 are later hires.
TrainSheets ==
    {WithIndex(EmployeeCells(1, 1, n, <<2016, 6, 15>>, "none", << >>) \o h2 \o h3) :
        n \in Skip..MaxMonths, h2 \in LateHires(2), h3 \in LateHires(3)}

\* The identifier lists the test sheet may hold.
TestLists == {{}, {3}, {1, 4}}

\* The typed tables handed to the functions one at a time.  The months are
\* the first days of January, February and March 2016; the pay of a row
\* follows from its employee and month.
FnCells ==
    {[Emp_ID |-> e,
      MMM_YY |-> m,
      Dateofjoining |-> j,
      LastWorkingDate |-> l,
      Salary |-> e + (m \div 31),
      Total_Business_Value |-> m - 31] :
        e \in {1, 2}, m \in {0, 31, 59}, j \in {0, 31}, l \in {NaT, 31}}

FnTables == UNION {{WithIndex(c) : c \in [1..n -> FnCells]} : n \in 0..MaxRows}
FnCutoffs == {0, 31, 59}
FnLists == {{}, {1}, {1, 2}, {2, 3}}

(***************************************************************************)
(* main()                                                                  *)
(***************************************************************************)
NoCall == [op |-> "none", df |-> << >>, end_date |-> NaT, ids |-> {}, ret |-> << >>]
NoModel == [n_estimators |-> 0, warm_start |-> FALSE, fitted |-> FALSE]
NoFinal == [columns |-> {}, Emp_ID |-> << >>]

Init ==
    /\ pc = "dates_from_strings"
    /\ full_df \in TrainSheets
    /\ id_list \in TestLists
    /\ emp_full_df = << >>
    /\ test_df = << >>
    /\ full_train_data = << >>
    /\ dates = << >>
    /\ loop_dates = << >>
    /\ clf = NoModel
    /\ data_before = << >>
    /\ emp_df = << >>
    /\ X = << >>
    /\ fits = << >>
    /\ final = NoFinal
    /\ fn = NoCall

\* line 92
DatesFromStrings ==
    /\ pc = "dates_from_strings"
    /\ full_df' = dates_from_strings(full_df)
    /\ pc' = "generate_full"
    /\ UNCHANGED <<id_list, emp_full_df, test_df, full_train_data, dates,
                   loop_dates, clf, data_before, emp_df, X, fits, final, fn>>

\* line 93
GenerateFull ==
    /\ pc = "generate_full"
    /\ emp_full_df' = generate_emp_samples(full_df)
    /\ pc' = "split_emps"
    /\ UNCHANGED <<full_df, id_list, test_df, full_train_data, dates,
                   loop_dates, clf, data_before, emp_df, X, fits, final, fn>>

\* line 96
SplitEmps ==
    /\ pc = "split_emps"
    /\ test_df' = split_train_test_emps(emp_full_df, id_list)[2]
    /\ pc' = "split_train"
    /\ UNCHANGED <<full_df, id_list, emp_full_df, full_train_data, dates,
                   loop_dates, clf, data_before, emp_df, X, fits, final, fn>>

\* lines 98-99: the second dates_from_strings parses dates that are typed
\* already and leaves them as they are.
SplitTrain ==
    /\ pc = "split_train"
    /\ full_train_data' = split_train_test_emps(full_df, id_list)[1]
    /\ pc' = "sort_dates"
    /\ UNCHANGED <<full_df, id_list, emp_full_df, test_df, dates,
                   loop_dates, clf, data_before, emp_df, X, fits, final, fn>>

\* dates[9:] with a slip: one month too few is skipped.
dates_slice_short(d) == SubSeq(d, Skip, Len(d))

\* dates[9:]
dates_slice(d) == SubSeq(d, Skip + 1, Len(d))

\* lines 101-105: the sorted distinct months, the classifier, the loop's range.
SortDates ==
    /\ pc = "sort_dates"
    /\ dates' = sorted(unique(Column(full_train_data, "MMM_YY")))
    /\ clf' = [n_estimators |-> InitialEstimators, warm_start |-> TRUE,
               fitted |-> FALSE]
    /\ loop_dates' = dates_slice(dates')
    /\ pc' = "loop"
    /\ UNCHANGED <<full_df, id_list, emp_full_df, test_df, full_train_data,
                   data_before, emp_df, X, fits, final, fn>>

\* line 107, for date = Head(loop_dates)
LoopFilter ==
    /\ pc = "loop"
    /\ loop_dates # << >>
    /\ data_before' = filter_data(full_train_data, Head(loop_dates))
    /\ pc' = "generate"
    /\ UNCHANGED <<full_df, id_list, emp_full_df, test_df, full_train_data,
                   dates, loop_dates, clf, emp_df, X, fits, final, fn>>

\* line 108
LoopGenerate ==
    /\ pc = "generate"
    /\ emp_df' = generate_emp_samples(data_before)
    /\ pc' = "fit"
    /\ UNCHANGED <<full_df, id_list, emp_full_df, test_df, full_train_data,
                   dates, loop_dates, clf, data_before, X, fits, final, fn>>

\* lines 110-111: X is assigned twice from emp_df; the second assignment wins.
feature_matrix(df) == drop(df, "Emp_ID")

\* lines 109-115: the label, the feature matrix, the split and the fit.  The
\* fit is recorded with the cutoff, the ensemble size and the columns of X.
LoopFit ==
    /\ pc = "fit"
    /\ emp_df # << >>
    /\ X' = feature_matrix(emp_df)
    /\ fits' = Append(fits, [date |-> Head(loop_dates),
                             n_estimators |-> clf.n_estimators,
                             columns |-> columns(X')])
    /\ clf' = [clf EXCEPT !.fitted = TRUE]
    /\ pc' = "eval"
    /\ UNCHANGED <<full_df, id_list, emp_full_df, test_df, full_train_data,
                   dates, loop_dates, data_before, emp_df, final, fn>>

\* lines 117-144: the metrics are printed and the ensemble grows.
LoopEval ==
    /\ pc = "eval"
    /\ clf' = [clf EXCEPT !.n_estimators = @ + Increment]
    /\ loop_dates' = Tail(loop_dates)
    /\ pc' = "loop"
    /\ UNCHANGED <<full_df, id_list, emp_full_df, test_df, full_train_data,
                   dates, data_before, emp_df, X, fits, final, fn>>

\* An exception ends the run: emp_df['Fired'] on a table without columns,
\* a stratified split or a metric the library refuses on a degenerate
\* sample, predict before any fit or on no rows.
Raise ==
    /\ \/ pc \in {"fit", "eval"}
       \/ pc = "loop" /\ loop_dates = << >> /\ (~clf.fitted \/ test_df = << >>)
    /\ pc' = "raised"
    /\ UNCHANGED <<full_df, id_list, emp_full_df, test_df, full_train_data,
                   dates, loop_dates, clf, data_before, emp_df, X, fits, final, fn>>

\* lines 146-150
Save ==
    /\ pc = "loop"
    /\ loop_dates = << >>
    /\ clf.fitted
    /\ test_df # << >>
    /\ final' = [columns |-> columns(drop(test_df, "Fired")),
                 Emp_ID |-> Column(test_df, "Emp_ID")]
    /\ pc' = "done"
    /\ UNCHANGED <<full_df, id_list, emp_full_df, test_df, full_train_data,
                   dates, loop_dates, clf, data_before, emp_df, X, fits, fn>>

Next ==
    \/ DatesFromStrings
    \/ GenerateFull
    \/ SplitEmps
    \/ SplitTrain
    \/ SortDates
    \/ LoopFilter
    \/ LoopGenerate
    \/ LoopFit
    \/ LoopEval
    \/ Raise
    \/ Save

Spec == Init /\ [][Next]_vars

(***************************************************************************)
(* The functions, one call at a time                                       *)
(***************************************************************************)
InitFn ==
    /\ pc = "fn"
    /\ fn \in {[NoCall EXCEPT !.op = "input", !.df = t] : t \in FnTables}
    /\ full_df = << >>
    /\ id_list = {}
    /\ emp_full_df = << >>
    /\ test_df = << >>
    /\ full_train_data = << >>
    /\ dates = << >>
    /\ loop_dates = << >>
    /\ clf = NoModel
    /\ data_before = << >>
    /\ emp_df = << >>
    /\ X = << >>
    /\ fits = << >>
    /\ final = NoFinal

MainIdle ==
    UNCHANGED <<pc, full_df, id_list, emp_full_df, test_df, full_train_data,
                dates, loop_dates, clf, data_before, emp_df, X, fits, final>>

FnFilter ==
    /\ pc = "fn"
    /\ fn.op = "input"
    /\ \E end_date \in FnCutoffs :
          fn' = [fn EXCEPT !.op = "filter_data", !.end_date = end_date,
                           !.ret = filter_data(fn.df, end_date)]
    /\ MainIdle

FnGenerate ==
    /\ pc = "fn"
    /\ fn.op = "input"
    /\ fn' = [fn EXCEPT !.op = "generate_emp_samples",
                        !.ret = generate_emp_samples(fn.df)]
    /\ MainIdle

FnSplit ==
    /\ pc = "fn"
    /\ fn.op = "input"
    /\ \E ids \in FnLists :
          fn' = [fn EXCEPT !.op = "split_train_test_emps", !.ids = ids,
                           !.ret = split_train_test_emps(fn.df, ids)]
    /\ MainIdle

NextFn ==
    \/ FnFilter
    \/ FnGenerate
    \/ FnSplit

SpecFn == InitFn /\ [][NextFn]_vars

\* The run of main() together with the single calls.
InitAll == Init \/ InitFn

NextAll ==
    \/ Next
    \/ NextFn

SpecAll == InitAll /\ [][NextAll]_vars

(***************************************************************************)
(* Properties                                                              *)
(***************************************************************************)
Rows(df) == {df[k] : k \in 1..Len(df)}
Labels(df) == {df[k].index : k \in 1..Len(df)}
RowAt(df, label) == CHOOSE r \in Rows(df) : r.index = label
Censored(r) == [r EXCEPT !.LastWorkingDate = NaT]

\* The states of main() in which data_before is the table filtered to the
\* cutoff Head(loop_dates), and those in which emp_df is aggregated from it.
Filtered == pc \in {"generate", "fit", "eval"}
Aggregated == pc \in {"fit", "eval"}

\* The records of the window: observed by the cutoff, joined before it.
InWindow(r, end_date) == r.MMM_YY <= end_date /\ r.Dateofjoining < end_date

\* C1: the table returned by filter_data(df, end_date) holds no record with
\* MMM-YY > end_date and none with Dateofjoining >= end_date, and it holds
\* every record of df with MMM-YY <= end_date and Dateofjoining < end_date.
C1_FilterKeepsExactlyTheWindow ==
    fn.op = "filter_data" =>
        /\ \A r \in Rows(fn.ret) :
              ~(r.MMM_YY > fn.end_date) /\ ~(r.Dateofjoining >= fn.end_date)
        /\ Labels(fn.ret) \subseteq Labels(fn.df)
        /\ \A r \in Rows(fn.df) :
              InWindow(r, fn.end_date) =>
                  \E o \in Rows(fn.ret) : Censored(o) = Censored(r)

\* A record observed at the cutoff is kept, and one joined on the cutoff is not.
C1_Witness ==
    /\ fn.op = "filter_data"
    /\ \E r \in Rows(fn.ret) : r.MMM_YY = fn.end_date
    /\ \E r \in Rows(fn.df) :
          /\ r.Dateofjoining = fn.end_date
          /\ r.MMM_YY <= fn.end_date
          /\ r.index \notin Labels(fn.ret)

\* The departure date of every kept record: removed when it is at or after
\* the cutoff, unchanged otherwise.
CensoredAt(in, end_date, out) ==
    \A o \in Rows(out) :
        LET r == RowAt(in, o.index)
        IN  /\ o.index \in Labels(in)
            /\ o.LastWorkingDate =
                  (IF r.LastWorkingDate # NaT /\ r.LastWorkingDate >= end_date
                   THEN NaT ELSE r.LastWorkingDate)
            /\ ~(o.LastWorkingDate # NaT /\ o.LastWorkingDate >= end_date)

\* C2: filter_data replaces a LastWorkingDate at or after end_date by "no
\* date" and keeps every other one, so no output record carries a departure
\* date >= end_date; and in every iteration of the training loop an employee
\* is labelled Fired only if one of their visible records has a
\* LastWorkingDate strictly before the cutoff of the iteration.
C2_DeparturesCensoredAtCutoff ==
    /\ fn.op = "filter_data" => CensoredAt(fn.df, fn.end_date, fn.ret)
    /\ Filtered => CensoredAt(full_train_data, Head(loop_dates), data_before)
    /\ Aggregated =>
          \A e \in Rows(emp_df) :
              e.Fired =>
                  \E o \in Rows(data_before) :
                      LET r == RowAt(full_train_data, o.index)
                      IN  /\ o.Emp_ID = e.Emp_ID
                          /\ r.LastWorkingDate # NaT
                          /\ r.LastWorkingDate < Head(loop_dates)

\* An iteration in which one employee's departure on the cutoff day is
\* censored and the employee is not labelled, while another one is labelled.
C2_Witness ==
    /\ Aggregated
    /\ \E o \in Rows(data_before) :
          /\ RowAt(full_train_data, o.index).LastWorkingDate = Head(loop_dates)
          /\ o.LastWorkingDate = NaT
          /\ \E e \in Rows(emp_df) : e.Emp_ID = o.Emp_ID /\ ~e.Fired
    /\ \E e \in Rows(emp_df) : e.Fired

\* C3: Fired is true iff at least one of the employee's input records has a
\* non-null LastWorkingDate, wherever that record stands among them.
C3_FiredIffAnyDeparture ==
    fn.op = "generate_emp_samples" =>
        \A e \in Rows(fn.ret) :
            e.Fired <=>
                \E r \in Rows(fn.df) :
                    r.Emp_ID = e.Emp_ID /\ r.LastWorkingDate # NaT

\* An employee labelled Fired whose last record has no departure date.
C3_Witness ==
    /\ fn.op = "generate_emp_samples"
    /\ \E e \in Rows(fn.ret) :
          /\ e.Fired
          /\ \E k \in 1..Len(fn.df) :
                /\ fn.df[k].Emp_ID = e.Emp_ID
                /\ fn.df[k].LastWorkingDate = NaT
                /\ \A j \in (k + 1)..Len(fn.df) : fn.df[j].Emp_ID # e.Emp_ID

\* The employees of an iteration whose reference LastWorkingDate (that of
\* their last visible record) is null, with their joining date.
LastRecord(df, id) ==
    LET K == {k \in 1..Len(df) : df[k].Emp_ID = id}
    IN  df[CHOOSE k \in K : \A j \in K : j <= k]
FirstRecord(df, id) ==
    LET K == {k \in 1..Len(df) : df[k].Emp_ID = id}
    IN  df[CHOOSE k \in K : \A j \in K : k <= j]
ActiveRows == {e \in Rows(emp_df) :
                  LastRecord(data_before, e.Emp_ID).LastWorkingDate = NaT}
IsMaxMonth(m, df) ==
    /\ \E r \in Rows(df) : r.MMM_YY = m
    /\ \A r \in Rows(df) : r.MMM_YY <= m
MeasuredUpTo(e, m) ==
    e.Work_Experience =
        MonthsCeil(m - FirstRecord(data_before, e.Emp_ID).Dateofjoining)

\* C4 as stated: in every iteration the Work Experience of an employee whose
\* reference LastWorkingDate is null is measured up to the maximum MMM-YY of
\* the full unfiltered dataset.
C4_MeasuredUpToGlobalMax ==
    Aggregated =>
        \A e \in ActiveRows :
            \E m \in {r.MMM_YY : r \in Rows(full_df)} :
                IsMaxMonth(m, full_df) /\ MeasuredUpTo(e, m)

\* C4 as amended: it is measured up to the maximum MMM-YY of the subset
\* filtered to the cutoff of the iteration, the table that is aggregated.
C4_MeasuredUpToFilteredMax ==
    Aggregated =>
        \A e \in ActiveRows :
            \E m \in {r.MMM_YY : r \in Rows(data_before)} :
                IsMaxMonth(m, data_before) /\ MeasuredUpTo(e, m)

\* An iteration whose cutoff is before the last month of the data, with an
\* active employee whose experience differs between the two reference dates.
C4_Witness ==
    /\ Aggregated
    /\ \E e \in ActiveRows :
          \E m \in {r.MMM_YY : r \in Rows(full_train_data)} :
              /\ IsMaxMonth(m, full_train_data)
              /\ ~IsMaxMonth(m, data_before)
              /\ ~MeasuredUpTo(e, m)

\* C5: the feature matrix X passed to fit (and to the holdout evaluation)
\* contains neither the Emp_ID column nor the Fired column.
C5_FeaturesExcludeIdAndLabel ==
    /\ \A k \in 1..Len(fits) :
          "Emp_ID" \notin fits[k].columns /\ "Fired" \notin fits[k].columns
    /\ "Emp_ID" \notin columns(X) /\ "Fired" \notin columns(X)

\* C6: generate_emp_samples returns exactly one row per distinct Emp_ID of
\* the input: none missing, none twice, none for an identifier not there.
C6_OneRowPerEmployee ==
    fn.op = "generate_emp_samples" =>
        /\ \A r \in Rows(fn.df) :
              Cardinality({k \in 1..Len(fn.ret) : fn.ret[k].Emp_ID = r.Emp_ID}) = 1
        /\ \A e \in Rows(fn.ret) : \E r \in Rows(fn.df) : r.Emp_ID = e.Emp_ID

\* An employee with two records, aggregated into one row.
C6_Witness ==
    /\ fn.op = "generate_emp_samples"
    /\ Len(fn.df) > Len(fn.ret)
    /\ Len(fn.ret) >= 1
    /\ fn.df[1].Emp_ID = fn.df[Len(fn.df)].Emp_ID

\* C7: split_train_test_emps returns two tables with no row in common whose
\* union is exactly the input rows; a row is in the test part iff its Emp_ID
\* is in the list.  So no record of a test-list employee is in the data the
\* training loop filters and fits on.
C7_SplitPartitionsByIdList ==
    /\ fn.op = "split_train_test_emps" =>
          /\ Rows(fn.ret[1]) \cap Rows(fn.ret[2]) = {}
          /\ Rows(fn.ret[1]) \cup Rows(fn.ret[2]) = Rows(fn.df)
          /\ Len(fn.ret[1]) + Len(fn.ret[2]) = Len(fn.df)
          /\ \A r \in Rows(fn.df) :
                /\ r \in Rows(fn.ret[2]) <=> r.Emp_ID \in fn.ids
                /\ r \in Rows(fn.ret[1]) <=> r.Emp_ID \notin fn.ids
    /\ pc \in {"sort_dates", "loop", "generate", "fit", "eval", "done"} =>
          /\ \A r \in Rows(full_df) :
                r \in Rows(full_train_data) <=> r.Emp_ID \notin id_list
          /\ Rows(full_train_data) \subseteq Rows(full_df)
          /\ \A r \in Rows(data_before) : r.Emp_ID \notin id_list
          /\ \A e \in Rows(emp_df) : e.Emp_ID \notin id_list

\* A fit on a sheet that holds a listed employee and two others.
C7_Witness ==
    /\ pc = "eval"
    /\ \E r \in Rows(full_df) : r.Emp_ID \in id_list
    /\ Len(emp_df) >= 2
    /\ test_df # << >>

\* The distinct months of the training data.
TrainMonths == {r.MMM_YY : r \in Rows(full_train_data)}
LoopOver == pc = "done" \/ (pc = "loop" /\ loop_dates = << >>)

\* C8: the loop visits the distinct months of the training data in strictly
\* ascending order, skipping the nine earliest; the classifier is created
\* once with 90 estimators and the k-th fit (k = 0, 1, ...) runs with
\* 90 + 20 * k, so the size never decreases and grows by exactly 20 between
\* fits; and the loop ends after the last month.
C8_WarmStartSchedule ==
    /\ \A k \in 1..Len(fits) :
          /\ fits[k].n_estimators = 90 + 20 * (k - 1)
          /\ fits[k].date \in TrainMonths
          /\ Cardinality({m \in TrainMonths : m < fits[k].date}) = 9 + (k - 1)
    /\ \A k \in 1..(Len(fits) - 1) :
          /\ fits[k].date < fits[k + 1].date
          /\ fits[k + 1].n_estimators = fits[k].n_estimators + 20
    /\ LoopOver =>
          Len(fits) = (IF Cardinality(TrainMonths) > 9
                       THEN Cardinality(TrainMonths) - 9 ELSE 0)

\* A run that fitted at two cutoffs or more and wrote its predictions.
C8_Witness ==
    /\ pc = "done"
    /\ Len(fits) >= 2
    /\ \E r \in Rows(full_train_data) : r.Emp_ID # 1

\* C9: the columns handed to predict on the test rows are the columns the
\* classifier was fitted on.
C9_PredictColumnsAreFitColumns ==
    pc = "done" => \A k \in 1..Len(fits) : fits[k].columns = final.columns

\* C10: label and reference date agree: Fired is true iff Work Experience is
\* measured up to one of the employee's own non-null LastWorkingDate values
\* (the else branch of the reference date), and false iff it is measured up
\* to the maximum MMM-YY of the table.
C10_LabelAgreesWithReference ==
    fn.op = "generate_emp_samples" =>
        \A e \in Rows(fn.ret) :
            LET own == last_day(employee_df_of(fn.df, e.Emp_ID)) # NaT
                ref == last_working_day(employee_df_of(fn.df, e.Emp_ID),
                                        max_date(fn.df))
            IN  /\ e.Fired <=> own
                /\ e.Fired =>
                      \E r \in Rows(fn.df) :
                          /\ r.Emp_ID = e.Emp_ID
                          /\ r.LastWorkingDate # NaT
                          /\ r.LastWorkingDate = ref

====
